---------------------------- MODULE Spec2Model ----------------------------
(***************************************************************************)
(* The pomodoro session of kit (src/src/commands/pomo.rs): the cyclic      *)
(* sequence of segments built by Pomo::run, the countdown task spawned for *)
(* each segment, the three channels between the two, and the render/input  *)
(* loop of Pomo::run with the terminal setup and teardown of WithTui.      *)
(*                                                                         *)
(* Durations are in milliseconds.  The controller (Pomo::run) and every    *)
(* countdown task run on a multi-threaded runtime (#[tokio::main]): their  *)
(* steps interleave freely and no timing is assumed.                       *)
(***************************************************************************)
EXTENDS Integers, Sequences, FiniteSets, TLC

(***************************************************************************)
(* Bounds of the model.                                                    *)
(***************************************************************************)
\* the largest --time / --break / --long-break value of SpecSeq
MaxMinutes == 2
\* the largest --n-pomos value of SpecSeq
MaxPomos == 3
\* the last index the segment iterator is followed to in SpecSeq
MaxSeqIndex == 12
\* the last segment index (enumerate() count) a session is followed to
MaxIndex == 1
\* the most rows and the most columns of an argument of transpose
MaxRows == 3
MaxCols == 3
\* milliseconds per minute, scaled down from 60 * 1000 so that a segment
\* lasts a few ticks
MinuteMillis == 50

(***************************************************************************)
(* Program constants.                                                      *)
(***************************************************************************)
\* let tick_rate = Duration::from_millis(100)
tick_rate == 100

VARIABLES
    \* --- struct Pomo (the command line) ---
    time, break_, long_break, n_pomos,
    \* --- locals of Pomo::run ---
    segments_list,   \* segments_once collected: one cycle
    cyc_pos,         \* segments_once.cycle(): position of the next item
    enum_count,      \* .enumerate(): the count the next item gets
    i,               \* index of the current segment
    segment,         \* the current segment
    yielded,         \* history: the segments taken so far, in order
    show_help,
    is_paused,
    remaining,       \* the value sampled from rx_remaining (line 124)
    ctl_pc,          \* position of Pomo::run
    run_result,      \* how Pomo::run ended, "running" until then
    \* --- the terminal (WithTui) ---
    term,            \* [alt, raw, cursor]
    shutdown_calls,  \* number of calls of tui_shutdown
    \* --- per segment index: the channels and the countdown task ---
    ctl_ends,        \* the controller still holds tx_paused, rx_paused,
                     \* tx_cancel and rx_remaining of that segment
    ch_remaining,    \* value of the watch channel (tx_remaining)
    ch_paused,       \* value of the watch channel (tx_paused)
    paused_unseen,   \* the task's rx_paused has not seen the latest value
    ch_cancel,       \* number of messages queued in the mpsc channel
    eng_pc,          \* position of the countdown task
    eng_duration,    \* its `duration` argument
    elapsed_total,   \* its elapsed_total
    eng_result,      \* how it ended
    \* --- history, read by the properties only ---
    n_emitted,       \* number of successful tx_remaining.send per task
    \* --- the pure functions, applied on their own ---
    try_from_arg,    \* the argument of PomoInput::try_from
    try_from_res,    \* its result
    transpose_arg,   \* the argument of transpose (word.rs)
    transpose_res    \* its result

cfg_vars == <<time, break_, long_break, n_pomos>>
seq_vars == <<segments_list, cyc_pos, enum_count, i, segment, yielded>>
ctl_vars == <<show_help, is_paused, remaining, ctl_pc, run_result>>
term_vars == <<term, shutdown_calls>>
chan_vars == <<ctl_ends, ch_remaining, ch_paused, paused_unseen, ch_cancel>>
eng_vars == <<eng_pc, eng_duration, elapsed_total, eng_result>>
hist_vars == <<n_emitted>>
task_vars == <<chan_vars, eng_vars, hist_vars>>
fn_vars == <<try_from_arg, try_from_res, transpose_arg, transpose_res>>
vars == <<cfg_vars, seq_vars, ctl_vars, term_vars, chan_vars, eng_vars,
          hist_vars, fn_vars>>

Indices == 0..MaxIndex

(***************************************************************************)
(* PomoSegment and the segment sequence (lines 23-39, 101-111).            *)
(***************************************************************************)
Work(minutes) == [kind |-> "Work", minutes |-> minutes]
ShortBreak(minutes) == [kind |-> "ShortBreak", minutes |-> minutes]
LongBreak(minutes) == [kind |-> "LongBreak", minutes |-> minutes]
NoSegment == [kind |-> "None", minutes |-> 0]

\* PomoSegment::duration, in milliseconds
duration(seg) == seg.minutes * MinuteMillis

\* repeat(x).take(n)
RepeatTake(x, n) == [k \in 1..n |-> x]

\* a faulty variant of Intersperse: the separator also follows the last element
RECURSIVE IntersperseTrailing(_, _)
IntersperseTrailing(s, sep) ==
    IF Len(s) = 0 THEN <<>>
    ELSE <<Head(s), sep>> \o IntersperseTrailing(Tail(s), sep)

\* Itertools::intersperse: sep between every two adjacent elements
RECURSIVE Intersperse(_, _)
Intersperse(s, sep) ==
    IF Len(s) <= 1 THEN s
    ELSE <<Head(s), sep>> \o Intersperse(Tail(s), sep)

\* segments_once, collected
SegmentsOnce(w, b, l, n) ==
    Intersperse(RepeatTake(Work(w), n), ShortBreak(b)) \o <<LongBreak(l)>>

\* a faulty variant of CycleNext: the cycle restarts one item early
CycleNextShort(list, pos) == IF pos >= Len(list) - 1 THEN 1 ELSE pos + 1

\* Cycle::next: the position after `pos`, restarting a clone of the
\* original iterator when it is exhausted
CycleNext(list, pos) == IF pos >= Len(list) THEN 1 ELSE pos + 1

\* `for (i, segment) in segments_once.cycle().enumerate()`: take one item
IterNext ==
    /\ i' = enum_count
    /\ segment' = segments_list[cyc_pos]
    /\ yielded' = Append(yielded, segments_list[cyc_pos])
    /\ enum_count' = enum_count + 1
    /\ cyc_pos' = CycleNext(segments_list, cyc_pos)
    /\ UNCHANGED segments_list

(***************************************************************************)
(* Input events and PomoInput::try_from (lines 169-224).                   *)
(***************************************************************************)
\* KeyCode: Esc, Enter, Backspace, Tab and Char(c) for some characters c
KeyCodes ==
    {"Esc", "Enter", "Backspace", "Tab",
     " ", "?", "c", "h", "q", "s", "x", "C", "H", "Q", "S", "/"}
\* KeyModifiers, a set of flags: NONE is the empty set
KeyModifiers ==
    {"NONE", "SHIFT", "CONTROL", "ALT", "SHIFT|CONTROL", "SHIFT|ALT",
     "CONTROL|ALT", "SHIFT|CONTROL|ALT"}
KeyEvents == [type : {"Key"}, code : KeyCodes, modifiers : KeyModifiers]
Events == KeyEvents \cup {[type |-> "Mouse"], [type |-> "Resize"]}

\* no event has been read
NoEvent == [type |-> "None"]

\* a faulty variant of TryFromKeyEvent: 'q' quits whatever the modifiers
TryFromKeyEventAnyQ(key_event) ==
    IF key_event.code = "Esc" THEN "Quit"
    ELSE IF key_event.code = " " THEN "Pause"
    ELSE IF key_event.code = "?" THEN "Help"
    ELSE IF key_event.code = "c" /\ key_event.modifiers = "CONTROL" THEN "Quit"
    ELSE IF key_event.code = "h" /\ key_event.modifiers = "NONE" THEN "Help"
    ELSE IF key_event.code = "q" THEN "Quit"
    ELSE IF key_event.code = "s" /\ key_event.modifiers = "NONE" THEN "Skip"
    ELSE "Err"

\* impl TryFrom<KeyEvent> for PomoInput; "Err" is Err(())
TryFromKeyEvent(key_event) ==
    IF key_event.code = "Esc" THEN "Quit"
    ELSE IF key_event.code = " " THEN "Pause"
    ELSE IF key_event.code = "?" THEN "Help"
    ELSE IF key_event.code = "c" /\ key_event.modifiers = "CONTROL" THEN "Quit"
    ELSE IF key_event.code = "h" /\ key_event.modifiers = "NONE" THEN "Help"
    ELSE IF key_event.code = "q" /\ key_event.modifiers = "NONE" THEN "Quit"
    ELSE IF key_event.code = "s" /\ key_event.modifiers = "NONE" THEN "Skip"
    ELSE "Err"

\* impl TryFrom<Event> for PomoInput
TryFromEvent(event) ==
    IF event.type = "Key" THEN TryFromKeyEvent(event) ELSE "Err"

\* the events that event_stream.next() can yield as Some(Ok(event)) and
\* that PomoInput::try_from maps to `input`
EventsFor(input) == {event \in Events : TryFromEvent(event) = input}

\* the arms of `match PomoInput::try_from(event)` (lines 139-155)
Arms == {"Help", "Pause", "Skip", "Quit", "Err"}

\* for each arm, the events that reach it
ArmEvents == [input \in Arms |-> EventsFor(input)]

(***************************************************************************)
(* The terminal (src/src/with_tui.rs).                                     *)
(***************************************************************************)
\* the terminal as tui_setup leaves it when it succeeds
TermAfterSetup == [alt |-> TRUE, raw |-> TRUE, cursor |-> TRUE]

\* a faulty variant of TuiShutdown: disable_raw_mode is left out
TuiShutdownKeepsRaw(t, fail) ==
    [term |-> [cursor |-> IF fail = 1 THEN t.cursor ELSE TRUE,
               raw |-> t.raw,
               alt |-> IF fail \in {1, 2, 3} THEN t.alt ELSE FALSE],
     ok |-> fail = 0]

\* tui_shutdown with its call number `fail` failing (0: none fails):
\* 1 show_cursor, 2 disable_raw_mode, 3 LeaveAlternateScreen,
\* 4 DisableMouseCapture.  Every `?` returns at the first failure.
TuiShutdown(t, fail) ==
    [term |-> [cursor |-> IF fail = 1 THEN t.cursor ELSE TRUE,
               raw |-> IF fail \in {1, 2} THEN t.raw ELSE FALSE,
               alt |-> IF fail \in {1, 2, 3} THEN t.alt ELSE FALSE],
     ok |-> fail = 0]

ShutdownFailures == 0..4

(***************************************************************************)
(* Initial state: Pomo::run after tui_setup succeeded (line 110), before   *)
(* the first iteration of 'outer.                                          *)
(***************************************************************************)
\* no channel and no countdown task exists
NoTasks ==
    /\ ctl_ends = [k \in Indices |-> FALSE]
    /\ ch_remaining = [k \in Indices |-> 0]
    /\ ch_paused = [k \in Indices |-> FALSE]
    /\ paused_unseen = [k \in Indices |-> FALSE]
    /\ ch_cancel = [k \in Indices |-> 0]
    /\ eng_pc = [k \in Indices |-> "none"]
    /\ eng_duration = [k \in Indices |-> 0]
    /\ elapsed_total = [k \in Indices |-> 0]
    /\ eng_result = [k \in Indices |-> "none"]
    /\ n_emitted = [k \in Indices |-> 0]

\* the command lines a session is followed for: Work(4), LongBreak(3),
\* Work(4), .. and Work(3), ShortBreak(4), Work(3), LongBreak(1), ..; a
\* segment of 4 minutes is a whole number of ticks, one of 3 is not
Scenarios ==
    { [time |-> 4, break_ |-> 1, long_break |-> 3, n_pomos |-> 1],
      [time |-> 3, break_ |-> 4, long_break |-> 1, n_pomos |-> 2] }

\* everything but the command line
InitRun ==
    /\ segments_list = SegmentsOnce(time, break_, long_break, n_pomos)
    /\ cyc_pos = 1
    /\ enum_count = 0
    /\ i = 0
    /\ segment = NoSegment
    /\ yielded = <<>>
    /\ show_help = FALSE
    /\ is_paused = FALSE
    /\ remaining = 0
    /\ ctl_pc = "for"
    /\ run_result = "running"
    /\ term = TermAfterSetup
    /\ shutdown_calls = 0
    /\ NoTasks
    /\ try_from_arg = NoEvent
    /\ try_from_res = "none"
    /\ transpose_arg = <<>>
    /\ transpose_res = <<>>

Init ==
    /\ \E c \in Scenarios :
         /\ time = c.time
         /\ break_ = c.break_
         /\ long_break = c.long_break
         /\ n_pomos = c.n_pomos
    /\ InitRun

(***************************************************************************)
(* Pomo::run, the controller (lines 111-166).                              *)
(***************************************************************************)
\* a faulty variant of is_finished: the handle never reports the end
IsFinishedNever(k) == FALSE

\* the countdown task of segment k has finished (JoinHandle::is_finished);
\* its rx_cancel, tx_remaining and rx_paused are dropped with it
is_finished(k) == eng_pc[k] = "done"

\* every way out of the body of 'outer drops its locals: rx_remaining,
\* tx_paused, rx_paused, tx_cancel (and detaches countdown_handle)
DropLocals == [ctl_ends EXCEPT ![i] = FALSE]

\* src/src/lib.rs, #[tokio::main]: when Pomo::run returns or panics,
\* kit_main returns, the runtime is dropped and the process ends; the
\* channels and the countdown tasks end with it
ProcessExit ==
    /\ ctl_ends' = [k \in Indices |-> FALSE]
    /\ ch_remaining' = [k \in Indices |-> 0]
    /\ ch_paused' = [k \in Indices |-> FALSE]
    /\ paused_unseen' = [k \in Indices |-> FALSE]
    /\ ch_cancel' = [k \in Indices |-> 0]
    /\ eng_pc' = [k \in Indices |-> "none"]
    /\ eng_duration' = [k \in Indices |-> 0]
    /\ elapsed_total' = [k \in Indices |-> 0]
    /\ eng_result' = [k \in Indices |-> "none"]
    /\ n_emitted' = [k \in Indices |-> 0]

\* one way out of Pomo::run that is not the `Ok(())` of line 165
Leave(result) ==
    /\ run_result' = result
    /\ ctl_pc' = "returned"
    /\ ProcessExit

\* the top of 'outer (lines 111-122): the locals of the previous iteration
\* are dropped, the next segment is taken, its three channels are created
\* and its countdown task is spawned.  With rx_remaining dropped the old
\* channel's value can be read by nobody, and with tx_paused dropped
\* changed() is ready whatever was seen: both are set to a fixed value.
NextSegment ==
    /\ enum_count <= MaxIndex
    /\ IterNext
    /\ ctl_ends' = [DropLocals EXCEPT ![i'] = TRUE]
    /\ ch_remaining' = [[ch_remaining EXCEPT ![i] = 0]
                            EXCEPT ![i'] = duration(segment')]
    /\ is_paused' = FALSE
    /\ ch_paused' = [ch_paused EXCEPT ![i'] = FALSE]
    /\ paused_unseen' = [paused_unseen EXCEPT ![i] = FALSE, ![i'] = FALSE]
    /\ ch_cancel' = [ch_cancel EXCEPT ![i'] = 0]
    /\ eng_pc' = [eng_pc EXCEPT ![i'] = "start"]
    /\ eng_duration' = [eng_duration EXCEPT ![i'] = duration(segment')]
    /\ elapsed_total' = [elapsed_total EXCEPT ![i'] = 0]
    /\ UNCHANGED <<eng_result, n_emitted>>

\* the first iteration of 'outer
Start ==
    /\ ctl_pc = "for"
    /\ NextSegment
    /\ ctl_pc' = "while"
    /\ UNCHANGED <<fn_vars, cfg_vars, show_help, remaining, run_result, term_vars>>

\* line 123 finds the task finished: the while loop ends, next iteration
Finished ==
    /\ ctl_pc = "while"
    /\ is_finished(i)
    /\ NextSegment
    /\ UNCHANGED <<fn_vars, cfg_vars, show_help, remaining, ctl_pc, run_result,
                   term_vars>>

\* lines 123-133: the task is not finished; sample rx_remaining and draw.
\* Terminal::draw hides the cursor; when it fails `?` returns the error.
Render ==
    /\ ctl_pc = "while"
    /\ ~is_finished(i)
    /\ remaining' = ch_remaining[i]
    /\ \E draw_ok \in BOOLEAN :
         IF draw_ok
         THEN /\ term' = [term EXCEPT !.cursor = FALSE]
              /\ ctl_pc' = "select"
              /\ UNCHANGED <<run_result, chan_vars, eng_vars, n_emitted>>
         ELSE /\ Leave("ErrRender")
              /\ UNCHANGED term
    /\ UNCHANGED <<fn_vars, cfg_vars, seq_vars, show_help, is_paused, shutdown_calls>>

\* line 135: the 100 ms sleep of select! completes first
SleepElapsed ==
    /\ ctl_pc = "select"
    /\ ctl_pc' = "while"
    /\ UNCHANGED <<fn_vars, cfg_vars, seq_vars, show_help, is_paused, remaining,
                   run_result, term_vars, chan_vars, eng_vars, hist_vars>>

\* a faulty variant of HandleHelp: the help key also resumes the session
HandleHelpResumes ==
    /\ ctl_pc = "select"
    /\ ArmEvents["Help"] # {}
    /\ show_help' = ~show_help
    /\ is_paused' = FALSE
    /\ ch_paused' = [ch_paused EXCEPT ![i] = FALSE]
    /\ paused_unseen' = [paused_unseen EXCEPT ![i] = TRUE]
    /\ ctl_pc' = "while"
    /\ UNCHANGED <<fn_vars, cfg_vars, seq_vars, remaining, run_result,
                   term_vars, ctl_ends, ch_remaining, ch_cancel, eng_vars,
                   hist_vars>>

\* lines 140-142
HandleHelp ==
    /\ ctl_pc = "select"
    /\ ArmEvents["Help"] # {}
    /\ show_help' = ~show_help
    /\ ctl_pc' = "while"
    /\ UNCHANGED <<fn_vars, cfg_vars, seq_vars, is_paused, remaining, run_result,
                   term_vars, chan_vars, eng_vars, hist_vars>>

\* lines 143-146: watch::Sender::send fails only when no receiver is left;
\* the controller's own rx_paused is one
HandlePause ==
    /\ ctl_pc = "select"
    /\ ArmEvents["Pause"] # {}
    /\ is_paused' = ~is_paused
    /\ IF ctl_ends[i] \/ ~is_finished(i)
       THEN /\ ch_paused' = [ch_paused EXCEPT ![i] = ~is_paused]
            /\ paused_unseen' = [paused_unseen EXCEPT ![i] = TRUE]
            /\ ctl_pc' = "while"
            /\ UNCHANGED <<run_result, ctl_ends, ch_remaining, ch_cancel,
                           eng_vars, n_emitted>>
       ELSE Leave("ErrPauseSend")
    /\ UNCHANGED <<fn_vars, cfg_vars, seq_vars, show_help, remaining, term_vars>>

\* line 148: mpsc::Sender::try_send fails when the receiver is gone (the
\* task has finished) or the one slot is taken; `?` returns the error
HandleSkip ==
    /\ ctl_pc = "select"
    /\ ArmEvents["Skip"] # {}
    /\ IF ~is_finished(i) /\ ch_cancel[i] = 0
       THEN /\ ch_cancel' = [ch_cancel EXCEPT ![i] = 1]
            /\ ctl_pc' = "skip_sent"
            /\ UNCHANGED <<run_result, ctl_ends, ch_remaining, ch_paused,
                           paused_unseen, eng_vars, n_emitted>>
       ELSE Leave("ErrCancelSend")
    /\ UNCHANGED <<fn_vars, cfg_vars, seq_vars, show_help, is_paused, remaining,
                   term_vars>>

\* line 149: continue 'outer
SkipContinue ==
    /\ ctl_pc = "skip_sent"
    /\ NextSegment
    /\ ctl_pc' = "while"
    /\ UNCHANGED <<fn_vars, cfg_vars, show_help, remaining, run_result, term_vars>>

\* lines 164-165, reached by break 'outer alone: tui_shutdown(..)?; Ok(())
ShutdownAndReturn ==
    /\ \E fail \in ShutdownFailures :
         LET r == TuiShutdown(term, fail) IN
         /\ term' = r.term
         /\ run_result' = IF r.ok THEN "Ok" ELSE "ErrShutdown"
    /\ shutdown_calls' = shutdown_calls + 1
    /\ ctl_pc' = "returned"
    /\ ProcessExit

\* lines 151-153: break 'outer, which drops the locals and goes to line 164
HandleQuit ==
    /\ ctl_pc = "select"
    /\ ArmEvents["Quit"] # {}
    /\ ShutdownAndReturn
    /\ UNCHANGED <<fn_vars, cfg_vars, seq_vars, show_help, is_paused, remaining>>

\* a faulty variant of HandleOther: Err(()) is returned with `?`
HandleOtherFails ==
    /\ ctl_pc = "select"
    /\ ArmEvents["Err"] # {}
    /\ Leave("ErrInput")
    /\ UNCHANGED <<fn_vars, cfg_vars, seq_vars, show_help, is_paused,
                   remaining, term_vars>>

\* line 154: the event maps to Err(()) and is dropped
HandleOther ==
    /\ ctl_pc = "select"
    /\ ArmEvents["Err"] # {}
    /\ ctl_pc' = "while"
    /\ UNCHANGED <<fn_vars, cfg_vars, seq_vars, show_help, is_paused, remaining,
                   run_result, term_vars, chan_vars, eng_vars, hist_vars>>

\* line 157: the event stream yields an error: panic
StreamError ==
    /\ ctl_pc = "select"
    /\ Leave("Panic")
    /\ UNCHANGED <<fn_vars, cfg_vars, seq_vars, show_help, is_paused, remaining,
                   term_vars>>

\* a faulty variant of StreamEnd: None leaves 'outer as Quit does
StreamEndBreaksOuter ==
    /\ ctl_pc = "select"
    /\ ShutdownAndReturn
    /\ UNCHANGED <<fn_vars, cfg_vars, seq_vars, show_help, is_paused, remaining>>

\* line 158: the event stream yields None: break out of the while loop,
\* which is the end of this iteration of 'outer
StreamEnd ==
    /\ ctl_pc = "select"
    /\ NextSegment
    /\ ctl_pc' = "while"
    /\ UNCHANGED <<fn_vars, cfg_vars, show_help, remaining, run_result, term_vars>>

(***************************************************************************)
(* countdown, the task spawned for segment k (lines 341-370).  A step of   *)
(* the task runs from one .await to the next.  Between two awaits it       *)
(* writes tx_remaining, then reads rx_cancel, then reads rx_paused; the    *)
(* controller touches one of these channels per step, so every order of    *)
(* the separate statements has the same outcome as an order of the steps.  *)
(***************************************************************************)
\* the task returns: "Completed" is the Ok(()) after the loop condition
\* failed, "Cancelled" the Ok(()) after a break, "Err" a `?`
EngExit(k, result) ==
    /\ eng_pc' = [eng_pc EXCEPT ![k] = "done"]
    /\ eng_result' = [eng_result EXCEPT ![k] = result]

EngGoto(k, pc) ==
    /\ eng_pc' = [eng_pc EXCEPT ![k] = pc]
    /\ UNCHANGED eng_result

\* line 352: while elapsed_total < duration
LoopCondition(elapsed, total) == elapsed < total

\* a faulty variant of Remaining: two ticks are taken off in advance
RemainingTwoTicksAhead(total, elapsed) == total - elapsed - 2 * tick_rate

\* line 353: duration - elapsed_total
Remaining(total, elapsed) == total - elapsed

\* a faulty variant of Elapse: a tick is counted twice
ElapseTwice(elapsed) == elapsed + 2 * tick_rate

\* line 367: elapsed_total += tick_rate
Elapse(elapsed) == elapsed + tick_rate

\* a faulty variant of EngIterate: one remaining channel is shared by the
\* tasks of all segments, and its receiver is the current segment's
EngIterateShared(k, elapsed) ==
    IF ~LoopCondition(elapsed, eng_duration[k])
    THEN /\ EngExit(k, "Completed")
         /\ UNCHANGED <<ch_remaining, n_emitted, ch_cancel>>
    ELSE /\ ch_remaining' =
              [ch_remaining EXCEPT ![i] = Remaining(eng_duration[k], elapsed)]
         /\ n_emitted' = [n_emitted EXCEPT ![k] = @ + 1]
         /\ IF ch_cancel[k] > 0
            THEN /\ ch_cancel' = [ch_cancel EXCEPT ![k] = @ - 1]
                 /\ EngExit(k, "Cancelled")
            ELSE /\ EngGoto(k, IF ch_paused[k] THEN "select" ELSE "tick")
                 /\ UNCHANGED ch_cancel

\* lines 352-365 up to the next await, with elapsed_total = elapsed:
\*   352  the loop condition; when it fails the task returns Ok(())
\*   353  tx_remaining.send(duration - elapsed_total)?, which fails when
\*        the controller has dropped rx_remaining
\*   354  rx_cancel.try_recv(): a queued message breaks; Empty and
\*        Disconnected fall through
\*   357  *rx_paused.borrow(), which does not mark the value seen: to the
\*        select! of line 358 when paused, else to the tick of line 366
EngIterate(k, elapsed) ==
    IF ~LoopCondition(elapsed, eng_duration[k])
    THEN /\ EngExit(k, "Completed")
         /\ UNCHANGED <<ch_remaining, n_emitted, ch_cancel>>
    ELSE IF ~ctl_ends[k]
    THEN /\ EngExit(k, "Err")
         /\ UNCHANGED <<ch_remaining, n_emitted, ch_cancel>>
    ELSE /\ ch_remaining' =
              [ch_remaining EXCEPT ![k] = Remaining(eng_duration[k], elapsed)]
         /\ n_emitted' = [n_emitted EXCEPT ![k] = @ + 1]
         /\ IF ch_cancel[k] > 0
            THEN /\ ch_cancel' = [ch_cancel EXCEPT ![k] = @ - 1]
                 /\ EngExit(k, "Cancelled")
            ELSE /\ EngGoto(k, IF ch_paused[k] THEN "select" ELSE "tick")
                 /\ UNCHANGED ch_cancel

\* the task is first polled: lines 347-351, then the first iteration
EngStart(k) ==
    /\ eng_pc[k] = "start"
    /\ EngIterate(k, elapsed_total[k])
    /\ UNCHANGED <<fn_vars, cfg_vars, seq_vars, ctl_vars, term_vars, ctl_ends,
                   ch_paused, paused_unseen, eng_duration, elapsed_total>>

\* lines 366-367, interval.tick().await completes and
\* elapsed_total += tick_rate; then the next iteration
EngTick(k) ==
    /\ eng_pc[k] = "tick"
    /\ elapsed_total' = [elapsed_total EXCEPT ![k] = Elapse(@)]
    /\ EngIterate(k, Elapse(elapsed_total[k]))
    /\ UNCHANGED <<fn_vars, cfg_vars, seq_vars, ctl_vars, term_vars, ctl_ends,
                   ch_paused, paused_unseen, eng_duration>>

\* lines 358-361: rx_cancel.recv() is ready with a queued message, or with
\* None once tx_cancel is dropped; either result breaks
EngSelectCancel(k) ==
    /\ eng_pc[k] = "select"
    /\ ch_cancel[k] > 0 \/ ~ctl_ends[k]
    /\ ch_cancel' = [ch_cancel EXCEPT ![k] = IF @ > 0 THEN @ - 1 ELSE @]
    /\ EngExit(k, "Cancelled")
    /\ UNCHANGED <<fn_vars, cfg_vars, seq_vars, ctl_vars, term_vars, ctl_ends,
                   ch_remaining, ch_paused, paused_unseen, eng_duration,
                   elapsed_total, hist_vars>>

\* line 362: rx_paused.changed() is ready when a value is unseen, or with
\* an error once tx_paused is dropped; either result goes on to line 364
EngSelectChanged(k) ==
    /\ eng_pc[k] = "select"
    /\ paused_unseen[k] \/ ~ctl_ends[k]
    /\ paused_unseen' = [paused_unseen EXCEPT ![k] = FALSE]
    /\ EngGoto(k, "wait_for")
    /\ UNCHANGED <<fn_vars, cfg_vars, seq_vars, ctl_vars, term_vars, ctl_ends,
                   ch_remaining, ch_paused, ch_cancel, eng_duration,
                   elapsed_total, hist_vars>>

\* a faulty variant of EngWaitFor: a dropped tx_paused goes unnoticed
EngWaitForNoClose(k) ==
    /\ eng_pc[k] = "wait_for"
    /\ ~ch_paused[k]
    /\ EngGoto(k, "tick")
    /\ paused_unseen' = [paused_unseen EXCEPT ![k] = FALSE]
    /\ UNCHANGED <<fn_vars, cfg_vars, seq_vars, ctl_vars, term_vars, ctl_ends,
                   ch_remaining, ch_paused, ch_cancel, eng_duration,
                   elapsed_total, hist_vars>>

\* line 364: rx_paused.wait_for(|paused| !paused).await?: returns when the
\* value is false, fails when the value is true and tx_paused is dropped,
\* and waits otherwise
EngWaitFor(k) ==
    /\ eng_pc[k] = "wait_for"
    /\ ~ch_paused[k] \/ ~ctl_ends[k]
    /\ IF ~ch_paused[k]
       THEN EngGoto(k, "tick")
       ELSE EngExit(k, "Err")
    /\ paused_unseen' = [paused_unseen EXCEPT ![k] = FALSE]
    /\ UNCHANGED <<fn_vars, cfg_vars, seq_vars, ctl_vars, term_vars, ctl_ends,
                   ch_remaining, ch_paused, ch_cancel, eng_duration,
                   elapsed_total, hist_vars>>

Controller ==
    \/ Start \/ Finished \/ Render \/ SleepElapsed
    \/ HandleHelp \/ HandlePause \/ HandleSkip \/ SkipContinue
    \/ HandleQuit \/ HandleOther \/ StreamError \/ StreamEnd

Countdown(k) ==
    \/ EngStart(k) \/ EngTick(k)
    \/ EngSelectCancel(k) \/ EngSelectChanged(k) \/ EngWaitFor(k)

Next == Controller \/ \E k \in Indices : Countdown(k)

Spec == Init /\ [][Next]_vars

(***************************************************************************)
(* SpecUndisturbed: a session in which the user neither pauses, skips nor  *)
(* quits and the event stream neither fails nor ends: every countdown runs *)
(* with no pause and no cancel.                                            *)
(***************************************************************************)
NextUndisturbed ==
    \/ Start \/ Finished \/ Render \/ SleepElapsed
    \/ HandleHelp \/ HandleOther
    \/ \E k \in Indices : EngStart(k) \/ EngTick(k)

SpecUndisturbed == Init /\ [][NextUndisturbed]_vars

(***************************************************************************)
(* SpecSeq: the segment iterator alone, for every command line within the  *)
(* bounds, followed to MaxSeqIndex.                                        *)
(***************************************************************************)
InitSeq ==
    /\ time \in 1..MaxMinutes
    /\ break_ \in 1..MaxMinutes
    /\ long_break \in 1..MaxMinutes
    /\ n_pomos \in 1..MaxPomos
    /\ InitRun

IterStep ==
    /\ enum_count <= MaxSeqIndex
    /\ IterNext
    /\ UNCHANGED <<fn_vars, cfg_vars, ctl_vars, term_vars, task_vars>>

SpecSeq == InitSeq /\ [][IterStep]_vars

(***************************************************************************)
(* SpecLive: a session in which the user neither skips nor quits, no draw  *)
(* fails and the event stream neither fails nor ends; the user may pause   *)
(* and resume.  Fairness:                                                  *)
(*  - Pomo::run is never blocked but in the select! of line 134, whose     *)
(*    sleep completes after 100 ms: weak fairness of its own steps;        *)
(*  - the runtime polls a spawned task that is ready, and the interval     *)
(*    fires: weak fairness of the task's steps; the wait_for of line 364   *)
(*    is ready only while the value is false, and a task woken by the send *)
(*    of false gets to read it: strong fairness;                           *)
(*  - the session is not left paused forever: a paused session is resumed, *)
(*    strong fairness as Pause is read in the select! only.                *)
(***************************************************************************)
RenderDrawn == Render /\ run_result' = "running"

Resume == HandlePause /\ is_paused

NextLive ==
    \/ Start \/ Finished \/ RenderDrawn \/ SleepElapsed
    \/ HandleHelp \/ HandlePause \/ HandleOther
    \/ \E k \in Indices :
          \/ EngStart(k) \/ EngTick(k)
          \/ EngSelectChanged(k) \/ EngWaitFor(k)

FairLive ==
    /\ WF_vars(Start \/ Finished \/ RenderDrawn \/ SleepElapsed)
    /\ SF_vars(Resume)
    /\ \A k \in Indices :
          /\ WF_vars(EngStart(k))
          /\ WF_vars(EngTick(k))
          /\ WF_vars(EngSelectChanged(k))
          /\ SF_vars(EngWaitFor(k))

SpecLive == Init /\ [][NextLive]_vars /\ FairLive

(***************************************************************************)
(* SpecFair: the sessions in which the user pauses, resumes, skips and     *)
(* quits (no help, no unmapped event, no draw failure, no stream error or  *)
(* end), and in which the runtime keeps polling the countdown tasks that   *)
(* are ready: weak fairness of each task's steps.  Nothing is assumed of   *)
(* the user or of the controller.                                          *)
(***************************************************************************)
NextFair ==
    \/ Start \/ Finished \/ RenderDrawn \/ SleepElapsed
    \/ HandlePause \/ HandleSkip \/ SkipContinue \/ HandleQuit
    \/ \E k \in Indices : Countdown(k)

FairTasks == \A k \in Indices : WF_vars(Countdown(k))

SpecFair == Init /\ [][NextFair]_vars /\ FairTasks

(***************************************************************************)
(* SpecConfig: the command line as clap parses it (Cli::parse, lib.rs 39). *)
(* The four options of Pomo are plain u64 fields with no value_parser      *)
(* range: every value of the type is accepted, 0 included, and Pomo::run   *)
(* is called with it.  The session is then followed with no pause, skip or *)
(* quit.                                                                   *)
(***************************************************************************)
\* clap's parser for a u64 option accepts `n`
ValueParserU64(n) == n \in Nat

InitConfig ==
    /\ time \in 0..MaxMinutes
    /\ break_ \in 0..MaxMinutes
    /\ long_break \in 0..MaxMinutes
    /\ n_pomos \in 0..MaxPomos
    /\ ValueParserU64(time) /\ ValueParserU64(break_)
    /\ ValueParserU64(long_break) /\ ValueParserU64(n_pomos)
    /\ InitRun

SpecConfig == InitConfig /\ [][NextUndisturbed]_vars

(***************************************************************************)
(* SpecInput: PomoInput::try_from applied to every event, on its own.      *)
(***************************************************************************)
ReadEvent ==
    /\ \E e \in Events :
         /\ try_from_arg' = e
         /\ try_from_res' = TryFromEvent(e)
    /\ UNCHANGED <<seq_vars, cfg_vars, ctl_vars, term_vars, task_vars,
                   transpose_arg, transpose_res>>

SpecInput == Init /\ [][ReadEvent]_vars

(***************************************************************************)
(* transpose (src/src/commands/word.rs, lines 189-202) and SpecTranspose:  *)
(* transpose applied to every rectangular Vec<Vec<T>> within the bounds.   *)
(***************************************************************************)
\* the inner fold over row.iter().enumerate(), from the cell at `idx`
\* (counted from 1): a new empty row is pushed when acc has none for the
\* cell's column, then the cell is pushed onto that row
RECURSIVE FoldCells(_, _, _)
FoldCells(acc, row, idx) ==
    IF idx > Len(row) THEN acc
    ELSE LET grown == IF Len(acc) <= idx - 1 THEN Append(acc, <<>>) ELSE acc
             pushed == [grown EXCEPT ![idx] = Append(@, row[idx])]
         IN  FoldCells(pushed, row, idx + 1)

\* the outer fold over v.iter(), from row `r` (counted from 1)
RECURSIVE FoldRows(_, _, _)
FoldRows(acc, rows, r) ==
    IF r > Len(rows) THEN acc
    ELSE FoldRows(FoldCells(acc, rows[r], 1), rows, r + 1)

\* a faulty variant of transpose: the rows are folded last to first
transposeBackwards(rows) ==
    FoldRows(<<>>, [k \in 1..Len(rows) |-> rows[Len(rows) + 1 - k]], 1)

\* fn transpose<T>(v: Vec<Vec<T>>) -> Vec<Vec<T>>
transpose(rows) == FoldRows(<<>>, rows, 1)

\* the values of T
Cells == {0, 1}

\* the R x C vectors of vectors
Rectangles(R, C) == [1..R -> [1..C -> Cells]]

\* the caller's argument
ChooseArg ==
    /\ transpose_arg = <<>>
    /\ \E R \in 1..MaxRows, C \in 0..MaxCols :
          transpose_arg' \in Rectangles(R, C)
    /\ UNCHANGED <<cfg_vars, seq_vars, ctl_vars, term_vars, task_vars,
                   try_from_arg, try_from_res, transpose_res>>

CallTranspose ==
    /\ transpose_arg # <<>>
    /\ transpose_res' = transpose(transpose_arg)
    /\ UNCHANGED <<cfg_vars, seq_vars, ctl_vars, term_vars, task_vars,
                   try_from_arg, try_from_res, transpose_arg>>

SpecTranspose == Init /\ [][ChooseArg \/ CallTranspose]_vars

(***************************************************************************)
(* Properties.                                                             *)
(***************************************************************************)
\* ceil(a / b) for b > 0
Ceil(a, b) == (a + b - 1) \div b

\* the segment the sequence is said to hold at 0-based index idx when its
\* period is `period` and its LongBreak is at `period - 1`
ExpectedAt(idx, period) ==
    LET r == idx % period IN
    IF r = period - 1 THEN LongBreak(long_break)
    ELSE IF r % 2 = 0 THEN Work(time)
    ELSE ShortBreak(break_)

\* C1 (SpecSeq): the cycle built by run() has length 2n, with Work at the
\* even positions, ShortBreak at the odd positions up to 2n-3 and
\* LongBreak at position 2n-1, and the segment current at index i is
\* cycle[i mod 2n].
C1_CycleShape ==
    /\ Len(segments_list) = 2 * n_pomos
    /\ \A p \in 0..(2 * n_pomos - 1) :
         segments_list[p + 1] =
            IF p = 2 * n_pomos - 1 THEN LongBreak(long_break)
            ELSE IF p % 2 = 0 THEN Work(time)
            ELSE ShortBreak(break_)
    /\ enum_count > 0 => segment = segments_list[(i % (2 * n_pomos)) + 1]

\* n = 3: index 11 is the LongBreak that closes the second cycle of six
C1_Witness ==
    /\ n_pomos = 3
    /\ i = 11
    /\ segment = LongBreak(long_break)
    /\ yielded[4] = ShortBreak(break_)

\* C2 as stated (SpecSeq): the first 2n segments alternate Work and
\* ShortBreak n times, the segment at index 2n is the LongBreak, and the
\* sequence repeats with period 2n+1.
C2_PeriodTwoNPlusOne ==
    \A q \in 1..Len(yielded) : yielded[q] = ExpectedAt(q - 1, 2 * n_pomos + 1)

\* C2 as amended (SpecSeq): the first 2n-1 segments alternate Work and
\* ShortBreak, starting and ending with Work; the segment at index 2n-1 is
\* the LongBreak; the segment at index i equals the one at index i + 2n.
C2_PeriodTwoN ==
    /\ \A q \in 1..Len(yielded) :
         q - 1 < 2 * n_pomos - 1 =>
            yielded[q] = IF (q - 1) % 2 = 0 THEN Work(time)
                         ELSE ShortBreak(break_)
    /\ Len(yielded) >= 2 * n_pomos =>
         yielded[2 * n_pomos] = LongBreak(long_break)
    /\ \A q \in 1..Len(yielded) :
         q + 2 * n_pomos <= Len(yielded) => yielded[q] = yielded[q + 2 * n_pomos]

\* n = 2: nine segments taken, the eighth closes the second cycle
C2_Witness ==
    /\ n_pomos = 2
    /\ Len(yielded) = 9
    /\ yielded[8] = LongBreak(long_break)
    /\ yielded[9] = Work(time)

\* C3 as stated (Spec): while the session stays paused in one segment, the
\* countdown of that segment neither advances elapsed_total nor emits a
\* remaining value, so that what the controller samples does not change.
C3_PausedFreezes ==
    [][(is_paused /\ is_paused' /\ i' = i /\ ctl_ends[i] /\ ctl_ends'[i]) =>
          /\ elapsed_total'[i] = elapsed_total[i]
          /\ n_emitted'[i] = n_emitted[i]
          /\ ch_remaining'[i] = ch_remaining[i]]_vars

\* C4 as stated (SpecUndisturbed): when a countdown completes with no pause
\* and no cancel, the last remaining value it emitted is 0.
C4_LastIsZero ==
    \A k \in Indices :
       (eng_result[k] = "Completed" /\ ctl_ends[k]) => ch_remaining[k] = 0

\* C5 (SpecUndisturbed): with no pause and no cancel a countdown emits
\* exactly ceil(D/T) values before it completes, each is D minus the
\* elapsed time at its emission, and the values never increase.
C5_TickCount ==
    /\ [](\A k \in Indices :
            /\ eng_result[k] = "Completed" =>
                  n_emitted[k] = Ceil(eng_duration[k], tick_rate)
            /\ (eng_pc[k] = "tick" /\ ctl_ends[k]) =>
                  /\ ch_remaining[k] = eng_duration[k] - elapsed_total[k]
                  /\ n_emitted[k] = (elapsed_total[k] \div tick_rate) + 1)
    /\ [][\A k \in Indices :
            (ctl_ends[k] /\ ctl_ends'[k]) =>
               ch_remaining'[k] <= ch_remaining[k]]_vars

\* a countdown whose duration is no whole number of ticks has completed
C5_Witness ==
    \E k \in Indices :
       /\ eng_result[k] = "Completed"
       /\ eng_duration[k] % tick_rate # 0
       /\ n_emitted[k] = 2
       /\ n_emitted[k] = Ceil(eng_duration[k], tick_rate)

\* C6 as stated (Spec): once the cancel signal of a segment has been sent,
\* the countdown of that segment emits no further remaining value.
C6_NoEmissionAfterCancel ==
    [][\A k \in Indices :
          ch_cancel[k] > 0 => n_emitted'[k] <= n_emitted[k]]_vars

\* C7 as stated (Spec): every Skip handled during segment i signals cancel
\* to the current countdown and then, without waiting for it, makes
\* segment i+1 current: remaining is the new segment's full duration,
\* paused is false and a new countdown is started.
C7_SkipAdvances ==
    [][/\ HandleSkip => (ctl_pc' = "skip_sent" /\ ch_cancel'[i] = 1)
       /\ (ctl_pc = "skip_sent" /\ ctl_pc' # "skip_sent") =>
             /\ i' = i + 1
             /\ ch_remaining'[i'] = duration(segment')
             /\ ~is_paused' /\ ~ch_paused'[i']
             /\ eng_pc'[i'] = "start" /\ elapsed_total'[i'] = 0]_vars

\* C8 as stated (Spec): a Skip handled after the current countdown has
\* finished (its cancel receiver is gone) does not end the session; the
\* controller goes on to the next segment.
C8_SkipAfterFinishNonFatal ==
    [][(HandleSkip /\ is_finished(i)) =>
          (run_result' = "running" /\ ctl_pc' # "returned")]_vars

\* the terminal as it was before tui_setup
TermRestored == [alt |-> FALSE, raw |-> FALSE, cursor |-> TRUE]

\* C9 as stated (Spec): a Quit handled in any Active state ends run() with
\* one terminal teardown and no error.
C9_QuitReturnsOk ==
    [][HandleQuit =>
          (ctl_pc' = "returned" /\ shutdown_calls' = 1 /\ run_result' = "Ok")]_vars

\* C9 as amended (Spec): a Quit handled in any Active state ends run() with
\* one terminal teardown; run() returns no error when every call of the
\* teardown succeeds, the terminal then being restored, and returns the
\* teardown's error otherwise.
C9_QuitTearsDownOnce ==
    /\ [][HandleQuit =>
            /\ ctl_pc' = "returned"
            /\ shutdown_calls' = 1
            /\ run_result' \in {"Ok", "ErrShutdown"}]_vars
    /\ [](run_result = "Ok" => (shutdown_calls = 1 /\ term = TermRestored))
    /\ [](shutdown_calls <= 1)

\* run() has returned Ok after a Quit in the second segment, paused, with
\* the help shown
C9_Witness ==
    /\ run_result = "Ok"
    /\ shutdown_calls = 1
    /\ i = 1
    /\ is_paused
    /\ show_help

\* C10 as stated (Spec): however run() ends once tui_setup has succeeded,
\* tui_shutdown has been attempted before control leaves run().
C10_RestoreOnEveryExit == ctl_pc = "returned" => shutdown_calls >= 1

\* one of the four options is not positive
NonPositive == time = 0 \/ break_ = 0 \/ long_break = 0 \/ n_pomos = 0

\* C11 as stated (SpecConfig): with a non-positive option the session core
\* is never entered: no segment is taken from the sequence, no countdown
\* task is started and Pomo::run does not get into its loop.
C11_NonPositiveRejected ==
    NonPositive =>
       /\ yielded = <<>>
       /\ \A k \in Indices : eng_pc[k] = "none"
       /\ ctl_pc \notin {"while", "select", "skip_sent"}

\* the result the input mapping is said to have for event e
ControlAction(e) ==
    IF e.type # "Key" THEN "Err"
    ELSE IF (e.code = "h" /\ e.modifiers = "NONE") \/ e.code = "?" THEN "Help"
    ELSE IF e.code = " " THEN "Pause"
    ELSE IF e.code = "s" /\ e.modifiers = "NONE" THEN "Skip"
    ELSE IF \/ e.code = "Esc"
            \/ e.code = "q" /\ e.modifiers = "NONE"
            \/ e.code = "c" /\ e.modifiers = "CONTROL" THEN "Quit"
    ELSE "Err"

\* C12 (SpecInput): PomoInput::try_from has a result for every event, and
\* it is Help for 'h' with no modifier or '?', Pause for the space bar,
\* Skip for 's' with no modifier, Quit for Esc, 'q' with no modifier or
\* Control+'c', and Err(()) for every other key event and for every mouse
\* or resize event.
C12_InputMapping ==
    try_from_arg # NoEvent =>
       /\ try_from_res \in {"Help", "Pause", "Skip", "Quit", "Err"}
       /\ try_from_res = ControlAction(try_from_arg)

\* 'q' with a modifier has been read and dropped
C12_Witness ==
    /\ try_from_arg = [type |-> "Key", code |-> "q", modifiers |-> "SHIFT"]
    /\ try_from_res = "Err"

\* the countdown task of segment k is blocked in its paused wait: in the
\* select! of line 358 or the wait_for of line 364, with the pause value true
PausedWait(k) == eng_pc[k] \in {"select", "wait_for"} /\ ch_paused[k]

\* C13 as stated (Spec): when the cancel signal has been sent to a countdown
\* task that is blocked in its paused wait, the next step of that task
\* receives the signal and ends the task as cancelled.
C13_CancelWhilePaused ==
    [][\A k \in Indices :
          (/\ PausedWait(k)
           /\ ch_cancel[k] > 0
           /\ eng_pc'[k] # eng_pc[k]
           /\ eng_pc'[k] # "none") =>
             (eng_result'[k] = "Cancelled" /\ ch_cancel'[k] = 0)]_vars

\* the countdown task of segment k is in its final tick: it has sent its
\* last value and the tick it awaits ends the loop
FinalTick(k) ==
    /\ eng_pc[k] = "tick"
    /\ ~LoopCondition(Elapse(elapsed_total[k]), eng_duration[k])

\* C14 as stated (Spec): a countdown task that is sent the cancel signal
\* during its final tick ends as cancelled, not as completed, and no task
\* ever emits a remaining value of zero.
C14_CancelBeatsCompletion ==
    /\ [][\A k \in Indices :
            (FinalTick(k) /\ ch_cancel[k] > 0 /\ eng_pc'[k] = "done") =>
               eng_result'[k] = "Cancelled"]_vars
    /\ [](\A k \in Indices :
            (n_emitted[k] > 0 /\ ctl_ends[k]) => ch_remaining[k] > 0)

\* C15 (SpecLive): with no Skip and no Quit and the session not left paused
\* forever, the countdown of the current segment ends as completed and the
\* controller then makes the next segment current as a Skip does, with the
\* full duration, not paused and a new countdown task, but with no cancel
\* signal sent; so every segment index up to the bound is reached.
C15_CompletionAdvances ==
    /\ \A j \in Indices :
          (i = j /\ ctl_pc \in {"while", "select"}) ~>
             (eng_result[j] = "Completed")
    /\ \A j \in 0..(MaxIndex - 1) : (i = j /\ ctl_pc = "while") ~> (i = j + 1)
    /\ [][Finished =>
            /\ eng_result[i] = "Completed"
            /\ i' = i + 1
            /\ ch_remaining'[i'] = duration(segment')
            /\ ~is_paused' /\ ~ch_paused'[i']
            /\ eng_pc'[i'] = "start" /\ elapsed_total'[i'] = 0
            /\ ch_cancel[i] = 0 /\ ch_cancel'[i] = 0]_vars

\* the second segment has completed after the first did, with a pause in it
C15_Witness ==
    /\ i = 1
    /\ eng_result[0] = "Completed"
    /\ eng_result[1] = "Completed"
    /\ is_paused

\* C16 (Spec): the value in the remaining channel of the current segment,
\* and the value the controller sampled from it for the frame it has drawn,
\* are at least 0 and at most the duration of the current segment.
C16_RemainingInRange ==
    /\ ctl_ends[i] =>
          (0 <= ch_remaining[i] /\ ch_remaining[i] <= duration(segment))
    /\ ctl_pc = "select" =>
          (0 <= remaining /\ remaining <= duration(segment))

\* a frame of the second segment has been drawn with part of the time gone
C16_Witness ==
    /\ i = 1
    /\ ctl_pc = "select"
    /\ 0 < remaining
    /\ remaining < duration(segment)
    /\ remaining = ch_remaining[i]

\* the countdown task of segment k has been spawned and has not returned
Alive(k) == eng_pc[k] \in {"start", "tick", "select", "wait_for"}

\* C17 (SpecFair): a countdown task whose channel ends the controller has
\* dropped (by Skip) ends, whether it was awaiting a tick or in its paused
\* wait; a Quit ends run() and with it the runtime and every task.
C17_AbandonedTerminates ==
    /\ \A k \in Indices : (Alive(k) /\ ~ctl_ends[k]) ~> ~Alive(k)
    /\ [][HandleQuit => \A k \in Indices : ~Alive(k)']_vars

\* the first segment was skipped while paused; its task, abandoned in the
\* paused wait, has ended with the error of wait_for
C17_Witness ==
    /\ i = 1
    /\ ~ctl_ends[0]
    /\ ch_paused[0]
    /\ eng_result[0] = "Err"

\* C18 (Spec): a Help flips show_help and leaves the segment index, the
\* paused flag, the pause and cancel channels and every countdown task as
\* they are; no other step changes show_help, which therefore keeps its
\* value across Pause, Skip and the end of a segment.
C18_HelpFrame ==
    [][/\ HandleHelp =>
            /\ show_help' = ~show_help
            /\ UNCHANGED <<seq_vars, is_paused, run_result, chan_vars,
                           eng_vars, hist_vars>>
       /\ show_help' # show_help => HandleHelp]_vars

\* the help is shown in the second segment, while paused
C18_Witness ==
    /\ show_help
    /\ i = 1
    /\ is_paused
    /\ ctl_pc = "while"

\* C19 (Spec): an event that PomoInput::try_from maps to Err(()) is
\* dropped: the segment index, the paused flag, show_help, the channels and
\* the countdown tasks are unchanged and run() goes on with no error.
C19_UnmappedEventDropped ==
    [][HandleOther =>
          /\ UNCHANGED <<seq_vars, is_paused, show_help, chan_vars, eng_vars,
                         hist_vars, term_vars>>
          /\ run_result' = "running"
          /\ ctl_pc' = "while"]_vars

\* run() is in its select!, in the second segment, paused and with the help
\* shown, where an unmapped key, a mouse or a resize event is dropped
C19_Witness ==
    /\ ctl_pc = "select"
    /\ TryFromEvent([type |-> "Resize"]) = "Err"
    /\ ArmEvents["Err"] # {}
    /\ i = 1
    /\ is_paused
    /\ show_help
    /\ run_result = "running"

\* C20 (SpecTranspose): for an argument of R >= 1 rows of C cells each,
\* transpose returns C rows of R cells with out[i][j] = in[j][i], and for
\* C >= 1 the transpose of the result is the argument.
C20_Transpose ==
    (/\ transpose_arg # <<>>
     /\ transpose_res # <<>> \/ Len(transpose_arg[1]) = 0) =>
       LET R == Len(transpose_arg)
           C == Len(transpose_arg[1])
       IN  /\ Len(transpose_res) = C
           /\ \A c \in 1..C :
                 /\ Len(transpose_res[c]) = R
                 /\ \A r \in 1..R : transpose_res[c][r] = transpose_arg[r][c]
           /\ C >= 1 => transpose(transpose_res) = transpose_arg

\* a 2 x 3 argument that is not symmetric has been transposed
C20_Witness ==
    /\ transpose_arg = <<<<0, 1, 1>>, <<0, 0, 1>>>>
    /\ transpose_res = <<<<0, 0>>, <<1, 0>>, <<1, 1>>>>

\* C21 (Spec): when the event stream ends, run() does not return and the
\* terminal is not torn down: the current segment is left with no cancel
\* signal sent and the next segment is made current, with the full duration,
\* not paused and a new countdown task; tui_shutdown is called by a Quit
\* step only.
C21_StreamEndAdvances ==
    [][/\ StreamEnd =>
            /\ ctl_pc' = "while"
            /\ run_result' = "running"
            /\ UNCHANGED term_vars
            /\ ch_cancel'[i] = ch_cancel[i]
            /\ i' = i + 1
            /\ ch_remaining'[i'] = duration(segment')
            /\ ~is_paused' /\ ~ch_paused'[i']
            /\ eng_pc'[i'] = "start" /\ elapsed_total'[i'] = 0
       /\ shutdown_calls' # shutdown_calls => HandleQuit]_vars

\* the second segment is current while the countdown task of the first is
\* still running with no cancel message queued: the first segment was left
\* by the end of the event stream, not by a Skip nor by its completion
C21_Witness ==
    /\ i = 1
    /\ run_result = "running"
    /\ ctl_ends[1]
    /\ ~ctl_ends[0]
    /\ Alive(0)
    /\ ch_cancel[0] = 0
    /\ shutdown_calls = 0

\* the values the countdown task of segment k has sent so far: its m-th
\* value is its duration less m - 1 ticks
EmittedBy(k) ==
    {Remaining(eng_duration[k], m * tick_rate) : m \in 0..(n_emitted[k] - 1)}

\* C22 (Spec): the value sampled for a frame of segment i is the full
\* duration of segment i or a value the countdown task of segment i sent;
\* a pause or cancel signal is sent on the channels of the current segment
\* only; and a step of the countdown task of one segment changes neither
\* the channels nor the task of another segment, nor what the controller
\* holds.
C22_EnginesIsolated ==
    /\ [](ctl_pc = "select" =>
             /\ eng_duration[i] = duration(segment)
             /\ remaining \in EmittedBy(i) \cup {duration(segment)})
    /\ [][run_result' = "running" =>
             \A k \in Indices \ {i} :
                /\ ch_paused'[k] = ch_paused[k]
                /\ paused_unseen[k] \/ ~paused_unseen'[k]
                /\ ch_cancel'[k] <= ch_cancel[k]]_vars
    /\ [][\A k \in Indices :
             Countdown(k) =>
                /\ UNCHANGED <<seq_vars, ctl_vars, ctl_ends>>
                /\ \A j \in Indices \ {k} :
                      /\ ch_remaining'[j] = ch_remaining[j]
                      /\ ch_paused'[j] = ch_paused[j]
                      /\ paused_unseen'[j] = paused_unseen[j]
                      /\ ch_cancel'[j] = ch_cancel[j]
                      /\ eng_pc'[j] = eng_pc[j]
                      /\ elapsed_total'[j] = elapsed_total[j]
                      /\ eng_result'[j] = eng_result[j]
                      /\ n_emitted'[j] = n_emitted[j]]_vars

\* the first segment was paused and then skipped, and its countdown task is
\* still running with the cancel message queued; a frame of the second
\* segment, which is not paused, has been drawn with a value its own task
\* sent after a tick
C22_Witness ==
    /\ i = 1
    /\ Alive(0)
    /\ ch_cancel[0] = 1
    /\ ch_paused[0]
    /\ ~ch_paused[1]
    /\ ~is_paused
    /\ ctl_pc = "select"
    /\ n_emitted[1] >= 2
    /\ remaining = Remaining(eng_duration[1], tick_rate)
    /\ remaining \notin EmittedBy(0)

=============================================================================
